---------------------------- MODULE Spec2Model ----------------------------
(***************************************************************************)
(* A model of dee (src/src/d.ts): the upward walk that resolves the        *)
(* project structure, the package-manager detection, the choice of the     *)
(* execution directory, the command harmonization and main()'s pipeline.   *)
(*                                                                         *)
(* Every string of the program (a path, an argument, a token of the final  *)
(* command, a script name) is a sequence of one-character strings, so that *)
(* split('@'), startsWith, join(' ') and the shell's word splitting are    *)
(* computed character by character.                                        *)
(***************************************************************************)
EXTENDS Naturals, Sequences, FiniteSets

VARIABLES
    cwd,           \* process.cwd(): the start directory (a path string)
    fs,            \* the directories on cwd's ancestor chain: path -> directory
    argv,          \* process.argv.slice(2)
    pc,            \* main()'s position
    isDebug,       \* main: isDebug
    cleanArgs,     \* main: cleanArgs
    structure,     \* main: structure (NullStructure for null)
    choice,        \* main: { manager, reason } of detectPackageManager
    executionDir,  \* main: executionDir
    finalCommand,  \* main: finalCommand (a list of tokens)
    spawned,       \* the execSync calls made so far: <<[line, cwd]>>
    exitCode       \* the process's exit code once pc = "exited"

vars == <<cwd, fs, argv, pc, isDebug, cleanArgs, structure, choice,
          executionDir, finalCommand, spawned, exitCode>>

-----------------------------------------------------------------------------
(* Bounds of the model.                                                    *)

\* The deepest start directory: /a/aa/aaa is at depth 3.
MaxDepth == 3
\* The longest argument list that follows the command.
MaxArgs == 2
\* The largest exit status of the child process.
MaxStatus == 2
\* The longest argument list of the invocations that choose an execution
\* directory.
MaxExecArgs == 1

-----------------------------------------------------------------------------
(* Strings.                                                                *)

S_npm == <<"n", "p", "m">>
S_yarn == <<"y", "a", "r", "n">>
S_pnpm == <<"p", "n", "p", "m">>
S_bun == <<"b", "u", "n">>
S_add == <<"a", "d", "d">>
S_install == <<"i", "n", "s", "t", "a", "l", "l">>
S_run == <<"r", "u", "n">>
S_build == <<"b", "u", "i", "l", "d">>
S_dev == <<"d", "e", "v">>
S_typecheck == <<"t", "y", "p", "e", "c", "h", "e", "c", "k">>
S_lint == <<"l", "i", "n", "t">>
S_debug == <<"-", "-", "d", "e", "b", "u", "g">>

\* const SUPPORTED_COMMANDS
SUPPORTED_COMMANDS == <<S_add, S_install, S_run, S_build, S_dev, S_typecheck, S_lint>>

\* type PackageManager, and the list detectPackageManager accepts
PackageManagers == <<S_bun, S_pnpm, S_yarn, S_npm>>

Range(s) == {s[i] : i \in 1..Len(s)}

\* Array.prototype.includes
Includes(list, x) == x \in Range(list)

\* String.prototype.startsWith
StartsWith(s, prefix) ==
    /\ Len(prefix) <= Len(s)
    /\ SubSeq(s, 1, Len(prefix)) = prefix

\* String.prototype.split(sep)[0]: the text before the first separator.
RECURSIVE SplitFirst(_, _)
SplitFirst(s, sep) ==
    IF s = <<>> \/ Head(s) = sep THEN <<>>
    ELSE <<Head(s)>> \o SplitFirst(Tail(s), sep)

\* Array.prototype.join(sep)
RECURSIVE Join(_, _)
Join(tokens, sep) ==
    IF tokens = <<>> THEN <<>>
    ELSE IF Len(tokens) = 1 THEN Head(tokens)
    ELSE Head(tokens) \o sep \o Join(Tail(tokens), sep)

\* The word splitting of the shell execSync hands the command line to
\* (strings without quotes and metacharacters): the maximal runs of
\* characters other than a space.
RECURSIVE ShellWordsFrom(_, _)
ShellWordsFrom(line, word) ==
    IF line = <<>> THEN (IF word = <<>> THEN <<>> ELSE <<word>>)
    ELSE IF Head(line) = " "
         THEN (IF word = <<>> THEN <<>> ELSE <<word>>) \o ShellWordsFrom(Tail(line), <<>>)
         ELSE ShellWordsFrom(Tail(line), Append(word, Head(line)))

ShellWords(line) == ShellWordsFrom(line, <<>>)

-----------------------------------------------------------------------------
(* Paths (POSIX).                                                          *)

\* null, for a path or a string that is absent
Null == <<"null">>

\* path.parse(p).root
RootOf(p) == <<"/">>

\* The index of the last "/" of p.
LastSlash(p) == CHOOSE i \in 1..Len(p) : p[i] = "/" /\ \A j \in (i + 1)..Len(p) : p[j] # "/"

\* path.dirname
Dirname(p) == IF LastSlash(p) = 1 THEN <<"/">> ELSE SubSeq(p, 1, LastSlash(p) - 1)

\* The directory at depth d of the chain the model walks: /, /a, /a/aa, ...
RECURSIVE PathAt(_)
PathAt(d) ==
    IF d = 0 THEN <<"/">>
    ELSE (IF d = 1 THEN <<>> ELSE PathAt(d - 1)) \o <<"/">> \o [i \in 1..d |-> "a"]

\* A directory and all its ancestors, the filesystem root included.
RECURSIVE AncestorsOrSelf(_)
AncestorsOrSelf(p) ==
    IF p = RootOf(p) THEN {p} ELSE {p} \cup AncestorsOrSelf(Dirname(p))

-----------------------------------------------------------------------------
(* The filesystem: fs[dir] is [files, packageJson] for each directory on   *)
(* the ancestor chain of cwd. files holds the names that exist in dir;     *)
(* packageJson is what JSON.parse(readFileSync(dir/package.json)) gives.   *)

MonorepoFiles == <<"pnpm-workspace.yaml", "lerna.json", "nx.json", "rush.json">>

\* isMonorepoRoot's lockFiles
MonorepoLockFiles == <<"pnpm-lock.yaml", "yarn.lock", "package-lock.json", "bun.lockb", "bun.lock">>

\* detectPackageManager's lockFiles, in Object.entries order
LockFileNames == <<"bun.lockb", "bun.lock", "pnpm-lock.yaml", "yarn.lock", "package-lock.json">>

LockFileManager(file) ==
    CASE file = "bun.lockb" -> S_bun
      [] file = "bun.lock" -> S_bun
      [] file = "pnpm-lock.yaml" -> S_pnpm
      [] file = "yarn.lock" -> S_yarn
      [] file = "package-lock.json" -> S_npm

\* JSON.parse threw, or gave null (every property read of it throws).
Unparseable == [kind |-> "unparseable"]

\* A packageManager field: absent, a string, or a number (split is no
\* function of a number: the read throws and the catch swallows it).
NoField == [tag |-> "absent"]
StringField(s) == [tag |-> "string", val |-> s]
NumberField == [tag |-> "number"]

\* A workspaces field: absent, null, [], a non-empty array, {packages: []},
\* {packages: [...]}, or true.
WorkspacesValues ==
    {"absent", "null", "emptyArray", "array", "emptyPackages", "packages", "true"}

\* if (packageJson.workspaces): every array and every object is truthy, the
\* empty ones too.
TruthyWorkspaces(w) == w \notin {"absent", "null"}

Manifest(w, pm, scripts) ==
    [kind |-> "object", workspaces |-> w, packageManager |-> pm, scripts |-> scripts]

\* fs.existsSync(path.join(dir, file)); a directory the model does not hold
\* does not exist.
ExistsSync(f, dir, file) == dir \in DOMAIN f /\ file \in f[dir].files

-----------------------------------------------------------------------------
(* isMonorepoRoot                                                          *)

\* Mutant: a declared workspaces field is enough, without a lock file.
IsMonorepoRootWithoutLock(f, dir) ==
    \/ \E i \in 1..Len(MonorepoFiles) : ExistsSync(f, dir, MonorepoFiles[i])
    \/ /\ ExistsSync(f, dir, "package.json")
       /\ f[dir].packageJson.kind = "object"
       /\ TruthyWorkspaces(f[dir].packageJson.workspaces)

IsMonorepoRoot(f, dir) ==
    \/ \E i \in 1..Len(MonorepoFiles) : ExistsSync(f, dir, MonorepoFiles[i])
    \/ /\ \E i \in 1..Len(MonorepoLockFiles) : ExistsSync(f, dir, MonorepoLockFiles[i])
       /\ ExistsSync(f, dir, "package.json")
       /\ f[dir].packageJson.kind = "object"
       /\ TruthyWorkspaces(f[dir].packageJson.workspaces)

-----------------------------------------------------------------------------
(* findProjectStructure                                                    *)

NullStructure == [localRoot |-> Null, monorepoRoot |-> Null, gitRoot |-> Null]

\* The while loop: one call is one iteration, w the loop's variables.
RECURSIVE WalkUp(_, _, _)
WalkUp(f, currentDir, w) ==
    IF currentDir = RootOf(currentDir) THEN w
    ELSE LET hasPkg == ExistsSync(f, currentDir, "package.json")
             next == [gitRoot |-> IF ExistsSync(f, currentDir, ".git")
                                  THEN currentDir ELSE w.gitRoot,
                      packageJsonDirs |-> IF hasPkg THEN Append(w.packageJsonDirs, currentDir)
                                          ELSE w.packageJsonDirs,
                      localRoot |-> IF hasPkg /\ w.localRoot = Null
                                    THEN currentDir ELSE w.localRoot]
         IN IF next.gitRoot # Null /\ Len(next.packageJsonDirs) > 0
            THEN next
            ELSE WalkUp(f, Dirname(currentDir), next)

\* Mutant: the scan without the git boundary.
RECURSIVE ScanMonorepoRootNoBoundary(_, _, _)
ScanMonorepoRootNoBoundary(f, dirs, gitRoot) ==
    IF dirs = <<>> THEN Null
    ELSE IF IsMonorepoRoot(f, Head(dirs)) THEN Head(dirs)
         ELSE ScanMonorepoRootNoBoundary(f, Tail(dirs), gitRoot)

\* The for loop over packageJsonDirs: the first directory that is within
\* the git boundary (textually) and passes the monorepo test.
RECURSIVE ScanMonorepoRoot(_, _, _)
ScanMonorepoRoot(f, dirs, gitRoot) ==
    IF dirs = <<>> THEN Null
    ELSE IF gitRoot # Null /\ ~StartsWith(Head(dirs), gitRoot)
         THEN ScanMonorepoRoot(f, Tail(dirs), gitRoot)
         ELSE IF IsMonorepoRoot(f, Head(dirs)) THEN Head(dirs)
              ELSE ScanMonorepoRoot(f, Tail(dirs), gitRoot)

FindProjectStructure(f, startDir) ==
    LET w == WalkUp(f, startDir,
                    [gitRoot |-> Null, packageJsonDirs |-> <<>>, localRoot |-> Null])
    IN IF w.localRoot = Null THEN NullStructure
       ELSE [localRoot |-> w.localRoot,
             monorepoRoot |-> ScanMonorepoRoot(f, w.packageJsonDirs, w.gitRoot),
             gitRoot |-> w.gitRoot]

-----------------------------------------------------------------------------
(* detectPackageManager                                                    *)

\* Mutant: the local root is searched before the monorepo root.
SearchDirsLocalFirst(s) ==
    (IF s.localRoot # Null THEN <<s.localRoot>> ELSE <<>>)
    \o (IF s.monorepoRoot # Null THEN <<s.monorepoRoot>> ELSE <<>>)

\* [structure.monorepoRoot, structure.localRoot].filter(Boolean)
SearchDirs(s) ==
    (IF s.monorepoRoot # Null THEN <<s.monorepoRoot>> ELSE <<>>)
    \o (IF s.localRoot # Null THEN <<s.localRoot>> ELSE <<>>)

Location(s, dir) == IF dir = s.monorepoRoot THEN "monorepo root" ELSE "local"

\* The inner loop of the first pass: the first lock file of dir, from index i.
RECURSIVE FirstLockFile(_, _, _)
FirstLockFile(f, dir, i) ==
    IF i > Len(LockFileNames) THEN "none"
    ELSE IF ExistsSync(f, dir, LockFileNames[i]) THEN LockFileNames[i]
         ELSE FirstLockFile(f, dir, i + 1)

\* The manager a directory's packageManager field names, Null when the
\* second pass finds none there.
FieldManager(f, dir) ==
    IF ~ExistsSync(f, dir, "package.json") THEN Null
    ELSE LET pj == f[dir].packageJson
         IN IF pj.kind # "object" THEN Null
            ELSE IF pj.packageManager.tag # "string" \/ pj.packageManager.val = <<>> THEN Null
                 ELSE LET manager == SplitFirst(pj.packageManager.val, "@")
                      IN IF Includes(PackageManagers, manager) THEN manager ELSE Null

\* The second pass, and the fallback.
RECURSIVE DetectByField(_, _, _)
DetectByField(f, s, dirs) ==
    IF dirs = <<>> THEN [manager |-> S_npm, reason |-> [kind |-> "fallback"]]
    ELSE IF FieldManager(f, Head(dirs)) # Null
         THEN [manager |-> FieldManager(f, Head(dirs)),
               reason |-> [kind |-> "packageManager field",
                           location |-> Location(s, Head(dirs)),
                           path |-> Head(dirs)]]
         ELSE DetectByField(f, s, Tail(dirs))

\* The first pass; all passes from dirs on.
RECURSIVE DetectByLockFile(_, _, _)
DetectByLockFile(f, s, dirs) ==
    IF dirs = <<>> THEN DetectByField(f, s, SearchDirs(s))
    ELSE IF FirstLockFile(f, Head(dirs), 1) # "none"
         THEN [manager |-> LockFileManager(FirstLockFile(f, Head(dirs), 1)),
               reason |-> [kind |-> "lock file",
                           file |-> FirstLockFile(f, Head(dirs), 1),
                           location |-> Location(s, Head(dirs)),
                           path |-> Head(dirs)]]
         ELSE DetectByLockFile(f, s, Tail(dirs))

DetectPackageManager(f, s) == DetectByLockFile(f, s, SearchDirs(s))

-----------------------------------------------------------------------------
(* hasScript and getExecutionDirectory                                     *)

HasScript(f, scriptName, dir) ==
    /\ ExistsSync(f, dir, "package.json")
    /\ f[dir].packageJson.kind = "object"
    /\ scriptName \in DOMAIN f[dir].packageJson.scripts
    /\ f[dir].packageJson.scripts[scriptName] # <<>>

RootCommands == <<S_add, S_install>>

ScriptCommands == <<S_run, S_build, S_dev, S_typecheck, S_lint>>

\* Mutant: add and install are placed like the script commands.
GetExecutionDirectoryByScript(f, command, s) ==
    IF HasScript(f, command, s.localRoot) THEN s.localRoot
    ELSE IF s.monorepoRoot # Null /\ HasScript(f, command, s.monorepoRoot)
         THEN s.monorepoRoot
         ELSE s.localRoot

\* Mutant: a script command prefers the monorepo root's script.
GetExecutionDirectoryRootFirst(f, command, s) ==
    IF Includes(RootCommands, command)
    THEN (IF s.monorepoRoot # Null THEN s.monorepoRoot ELSE s.localRoot)
    ELSE IF s.monorepoRoot # Null /\ HasScript(f, command, s.monorepoRoot)
         THEN s.monorepoRoot
         ELSE s.localRoot

GetExecutionDirectory(f, command, s) ==
    IF Includes(RootCommands, command)
    THEN (IF s.monorepoRoot # Null THEN s.monorepoRoot ELSE s.localRoot)
    ELSE IF Includes(ScriptCommands, command)
         THEN IF HasScript(f, command, s.localRoot) THEN s.localRoot
              ELSE IF s.monorepoRoot # Null /\ HasScript(f, command, s.monorepoRoot)
                   THEN s.monorepoRoot
                   ELSE s.localRoot
         ELSE s.localRoot

-----------------------------------------------------------------------------
(* harmonizeCommand: [exit |-> TRUE] is process.exit(1), else the tokens.  *)

Tokens(t) == [exit |-> FALSE, tokens |-> t]

UsageExit == [exit |-> TRUE, tokens |-> <<>>]

\* Mutant: bun's install keeps its arguments as an install.
HarmonizeCommandBunInstalls(command, args, packageManager) ==
    CASE command = S_add ->
           Tokens(<<packageManager, IF packageManager = S_npm THEN S_install ELSE S_add>> \o args)
      [] command = S_install -> Tokens(<<packageManager, S_install>> \o args)
      [] command = S_run ->
           IF args = <<>> \/ Head(args) = <<>>
           THEN UsageExit
           ELSE Tokens(<<packageManager, S_run>> \o args)
      [] command \in {S_build, S_dev, S_typecheck, S_lint} ->
           Tokens(<<packageManager, S_run, command>>)
      [] OTHER -> UsageExit

\* Mutant: run does not ask for a script name.
HarmonizeCommandRunUnchecked(command, args, packageManager) ==
    CASE command = S_add ->
           Tokens(<<packageManager, IF packageManager = S_npm THEN S_install ELSE S_add>> \o args)
      [] command = S_install ->
           IF packageManager = S_bun /\ Len(args) > 0
           THEN Tokens(<<S_bun, S_add>> \o args)
           ELSE Tokens(<<packageManager, S_install>> \o args)
      [] command = S_run -> Tokens(<<packageManager, S_run>> \o args)
      [] command \in {S_build, S_dev, S_typecheck, S_lint} ->
           Tokens(<<packageManager, S_run, command>>)
      [] OTHER -> UsageExit

HarmonizeCommand(command, args, packageManager) ==
    CASE command = S_add ->
           (CASE packageManager = S_npm -> Tokens(<<S_npm, S_install>> \o args)
              [] packageManager = S_yarn -> Tokens(<<S_yarn, S_add>> \o args)
              [] packageManager = S_pnpm -> Tokens(<<S_pnpm, S_add>> \o args)
              [] packageManager = S_bun -> Tokens(<<S_bun, S_add>> \o args)
              [] OTHER -> Tokens(<<>>))
      [] command = S_install ->
           IF packageManager = S_bun /\ Len(args) > 0
           THEN Tokens(<<S_bun, S_add>> \o args)
           ELSE Tokens(<<packageManager, S_install>> \o args)
      [] command = S_run ->
           IF args = <<>> \/ Head(args) = <<>>
           THEN UsageExit
           ELSE Tokens(<<packageManager, S_run>> \o args)
      [] command = S_build -> Tokens(<<packageManager, S_run, S_build>>)
      [] command = S_dev -> Tokens(<<packageManager, S_run, S_dev>>)
      [] command = S_typecheck -> Tokens(<<packageManager, S_run, S_typecheck>>)
      [] command = S_lint -> Tokens(<<packageManager, S_run, S_lint>>)
      [] OTHER -> UsageExit

-----------------------------------------------------------------------------
(* main(): one action per stage of the pipeline.                           *)

Exit(code) == pc' = "exited" /\ exitCode' = code

\* const args / debugIndex / isDebug / cleanArgs
StripDebug ==
    /\ pc = "start"
    /\ isDebug' = Includes(argv, S_debug)
    /\ cleanArgs' = SelectSeq(argv, LAMBDA arg : arg # S_debug)
    /\ pc' = IF cleanArgs' = <<>> THEN "bare" ELSE "command"
    /\ UNCHANGED <<cwd, fs, argv, structure, choice, executionDir, finalCommand,
                   spawned, exitCode>>

\* if (cleanArgs.length === 0) { ... }: the bare manager, from the local root.
BareMode ==
    /\ pc = "bare"
    /\ structure' = FindProjectStructure(fs, cwd)
    /\ IF structure' = NullStructure
       THEN /\ Exit(1)
            /\ UNCHANGED <<choice, executionDir, spawned>>
       ELSE /\ choice' = DetectPackageManager(fs, structure')
            /\ executionDir' = structure'.localRoot
            /\ spawned' = Append(spawned, [line |-> choice'.manager, cwd |-> executionDir'])
            /\ pc' = "running"
            /\ UNCHANGED exitCode
    /\ UNCHANGED <<cwd, fs, argv, isDebug, cleanArgs, finalCommand>>

\* const command / commandArgs, and the SUPPORTED_COMMANDS check
CheckCommand ==
    /\ pc = "command"
    /\ IF ~Includes(SUPPORTED_COMMANDS, cleanArgs[1])
       THEN Exit(1)
       ELSE pc' = "resolve" /\ UNCHANGED exitCode
    /\ UNCHANGED <<cwd, fs, argv, isDebug, cleanArgs, structure, choice, executionDir,
                   finalCommand, spawned>>

\* const structure = findProjectStructure(); if (!structure) exit
Resolve ==
    /\ pc = "resolve"
    /\ structure' = FindProjectStructure(fs, cwd)
    /\ IF structure' = NullStructure
       THEN Exit(1)
       ELSE pc' = "detect" /\ UNCHANGED exitCode
    /\ UNCHANGED <<cwd, fs, argv, isDebug, cleanArgs, choice, executionDir, finalCommand,
                   spawned>>

\* const { manager, reason } = detectPackageManager(structure)
Detect ==
    /\ pc = "detect"
    /\ choice' = DetectPackageManager(fs, structure)
    /\ pc' = "selectDir"
    /\ UNCHANGED <<cwd, fs, argv, isDebug, cleanArgs, structure, executionDir, finalCommand,
                   spawned, exitCode>>

\* const executionDir = getExecutionDirectory(command, structure)
SelectDirectory ==
    /\ pc = "selectDir"
    /\ executionDir' = GetExecutionDirectory(fs, cleanArgs[1], structure)
    /\ pc' = "harmonize"
    /\ UNCHANGED <<cwd, fs, argv, isDebug, cleanArgs, structure, choice, finalCommand,
                   spawned, exitCode>>

\* const finalCommand = harmonizeCommand(command, commandArgs, packageManager)
Harmonize ==
    /\ pc = "harmonize"
    /\ LET h == HarmonizeCommand(cleanArgs[1], Tail(cleanArgs), choice.manager)
       IN IF h.exit
          THEN Exit(1) /\ UNCHANGED finalCommand
          ELSE finalCommand' = h.tokens /\ pc' = "spawn" /\ UNCHANGED exitCode
    /\ UNCHANGED <<cwd, fs, argv, isDebug, cleanArgs, structure, choice, executionDir,
                   spawned>>

\* execSync(finalCommand.join(' '), { stdio: 'inherit', cwd: executionDir })
Spawn ==
    /\ pc = "spawn"
    /\ spawned' = Append(spawned, [line |-> Join(finalCommand, <<" ">>), cwd |-> executionDir])
    /\ pc' = "running"
    /\ UNCHANGED <<cwd, fs, argv, isDebug, cleanArgs, structure, choice, executionDir,
                   finalCommand, exitCode>>

\* How the child ended: with an exit status, or killed by a signal (its
\* status is then null).
ChildResults ==
    {[killed |-> FALSE, status |-> st] : st \in 0..MaxStatus}
    \cup {[killed |-> TRUE, status |-> 0]}

\* execSync returns (status 0) or throws: process.exit(error.status || 1)
ChildExit ==
    /\ pc = "running"
    /\ \E r \in ChildResults :
          Exit(IF ~r.killed /\ r.status = 0 THEN 0
               ELSE IF r.killed THEN 1 ELSE r.status)
    /\ UNCHANGED <<cwd, fs, argv, isDebug, cleanArgs, structure, choice, executionDir,
                   finalCommand, spawned>>

Next ==
    \/ StripDebug
    \/ BareMode
    \/ CheckCommand
    \/ Resolve
    \/ Detect
    \/ SelectDirectory
    \/ Harmonize
    \/ Spawn
    \/ ChildExit

\* The state main() starts in, for a start directory, a filesystem and an
\* argument vector.
Start(c, f, a) ==
    /\ cwd = c
    /\ fs = f
    /\ argv = a
    /\ pc = "start"
    /\ isDebug = FALSE
    /\ cleanArgs = <<>>
    /\ structure = NullStructure
    /\ choice = [manager |-> Null, reason |-> [kind |-> "none"]]
    /\ executionDir = Null
    /\ finalCommand = <<>>
    /\ spawned = <<>>
    /\ exitCode = 0

-----------------------------------------------------------------------------
(* The inputs the specifications draw from.                                *)

S_x == <<"x">>
S_x_y == <<"x", " ", "y">>
S_test == <<"t", "e", "s", "t">>
S_sh == <<"s", "h">>

\* All sequences over S of length at most n.
RECURSIVE SeqsUpTo(_, _)
SeqsUpTo(S, n) ==
    IF n = 0 THEN {<<>>}
    ELSE LET shorter == SeqsUpTo(S, n - 1)
         IN shorter \cup {Append(q, x) : q \in {r \in shorter : Len(r) = n - 1}, x \in S}

NoScripts == [name \in {} |-> <<>>]

\* A directory without package.json (nothing is read from it).
Dir(files) == [files |-> files, packageJson |-> Unparseable]

\* A directory with package.json.
PackageDir(files, pj) == [files |-> files \cup {"package.json"}, packageJson |-> pj]

PlainManifest == Manifest("absent", NoField, NoScripts)

\* The filesystems over the chain of c whose directories are drawn from D.
ChainsOver(c, D) == [AncestorsOrSelf(c) -> D]

\* Directories for the walk: with or without .git, and without
\* package.json, with a plain one, with one beside lerna.json, or with one
\* that declares workspaces beside yarn.lock.
WalkDirs ==
    {Dir(g) : g \in SUBSET {".git"}}
    \cup {PackageDir(g, PlainManifest) : g \in SUBSET {".git"}}
    \cup {PackageDir(g \cup {"lerna.json"}, PlainManifest) : g \in SUBSET {".git"}}
    \cup {PackageDir(g \cup {"yarn.lock"}, Manifest("array", NoField, NoScripts)) :
             g \in SUBSET {".git"}}

WalkArgv == {<<>>, <<S_debug>>, <<S_sh>>, <<S_run>>, <<S_build>>, <<S_install, S_x>>}

\* Every start directory down to MaxDepth, every chain over WalkDirs.
InitWalk ==
    \E d \in 0..MaxDepth : \E f \in ChainsOver(PathAt(d), WalkDirs) : \E a \in WalkArgv :
        Start(PathAt(d), f, a)

\* One directory /a with package.json, any set of the workspace-indicator
\* and lock files, with or without .git, and any manifest.
MonorepoDirs ==
    {PackageDir(files, pj) :
        files \in SUBSET (Range(MonorepoFiles) \cup Range(MonorepoLockFiles) \cup {".git"}),
        pj \in {Unparseable} \cup {Manifest(w, NoField, NoScripts) : w \in WorkspacesValues}}

InitMonorepo ==
    \E d \in MonorepoDirs : \E a \in {<<>>, <<S_install>>, <<S_debug, S_build>>} :
        Start(PathAt(1), [p \in AncestorsOrSelf(PathAt(1)) |->
                             IF p = PathAt(1) THEN d ELSE Dir({})], a)

\* packageManager fields: none, "pnpm@8.0.0", "yarn", "@npm", "sh@1", a number.
FieldValues ==
    {NoField,
     StringField(S_pnpm \o <<"@", "8", ".", "0", ".", "0">>),
     StringField(S_yarn),
     StringField(<<"@">> \o S_npm),
     StringField(S_sh \o <<"@", "1">>),
     NumberField}

\* A package directory with any set of lock files and any of the fields.
DetectDirs(extra) ==
    {PackageDir(locks \cup extra, Manifest("absent", pm, NoScripts)) :
        locks \in SUBSET Range(LockFileNames), pm \in FieldValues}
    \cup {PackageDir(locks \cup extra, Unparseable) : locks \in SUBSET Range(LockFileNames)}

\* /a/aa is the local root; /a is a package directory that is the monorepo
\* root (nx.json) or is not; or /a/aa is itself the monorepo root, below an
\* empty /a.
DetectTrees ==
    {<<local, parent>> : local \in DetectDirs({}),
                         parent \in DetectDirs({}) \cup DetectDirs({"nx.json"})}
    \cup {<<local, Dir({})>> : local \in DetectDirs({"nx.json"})}

InitDetect ==
    \E t \in DetectTrees : \E local \in {t[1]} : \E parent \in {t[2]} :
    \E a \in {<<>>, <<S_install>>} :
        Start(PathAt(2), [p \in AncestorsOrSelf(PathAt(2)) |->
                             IF p = PathAt(2) THEN local
                             ELSE IF p = PathAt(1) THEN parent ELSE Dir({})], a)

\* Script mappings over (a subset of) names: each declared script is ""
\* or "x".
ScriptMaps(names) == UNION {[dom -> {<<>>, S_x}] : dom \in SUBSET names}

ManifestsWith(names) ==
    {Unparseable} \cup {Manifest("absent", NoField, sc) : sc \in ScriptMaps(names)}

ExecArgv ==
    {<<>>} \cup {<<c>> \o args : c \in Range(SUPPORTED_COMMANDS),
                                args \in SeqsUpTo({S_test, S_build}, MaxExecArgs)}

\* /a/aa is the local root; /a has no package.json or has one; each of the
\* two may hold nx.json; the manifests declare any of the names the
\* invocation mentions.
InitExec ==
    \E a \in ExecArgv :
    \E local \in {PackageDir(ind, pj) : ind \in SUBSET {"nx.json"},
                                       pj \in ManifestsWith(Range(a))} :
    \E parent \in {Dir({})} \cup {PackageDir(ind, pj) : ind \in SUBSET {"nx.json"},
                                                       pj \in ManifestsWith(Range(a))} :
        Start(PathAt(2), [p \in AncestorsOrSelf(PathAt(2)) |->
                             IF p = PathAt(2) THEN local
                             ELSE IF p = PathAt(1) THEN parent ELSE Dir({})], a)

\* The words of an argument vector: the commands, --debug, "x", "x y", "".
ArgWords == Range(SUPPORTED_COMMANDS) \cup {S_debug, S_x, S_x_y, <<>>}

\* /a without package.json, or with one and at most one lock file.
CommandDirs ==
    {Dir({}), PackageDir({}, PlainManifest)}
    \cup {PackageDir({LockFileNames[i]}, PlainManifest) : i \in 1..Len(LockFileNames)}

\* Every argument vector of a command and at most MaxArgs arguments.
InitCommand ==
    \E d \in CommandDirs : \E a \in SeqsUpTo(ArgWords, MaxArgs + 1) :
        Start(PathAt(1), [p \in AncestorsOrSelf(PathAt(1)) |->
                             IF p = PathAt(1) THEN d ELSE Dir({})], a)

-----------------------------------------------------------------------------
(* Specifications.                                                         *)

Spec == InitWalk /\ [][Next]_vars

SpecMonorepo == InitMonorepo /\ [][Next]_vars

SpecDetect == InitDetect /\ [][Next]_vars

SpecExec == InitExec /\ [][Next]_vars

SpecCommand == InitCommand /\ [][Next]_vars

-----------------------------------------------------------------------------
(* What the properties read off a state.                                   *)

AfterPc(positions) == pc \in positions

\* findProjectStructure has returned (to the bare mode, or to a supported
\* command).
Resolved ==
    \/ cleanArgs = <<>> /\ AfterPc({"running", "exited"})
    \/ /\ cleanArgs # <<>>
       /\ Includes(SUPPORTED_COMMANDS, cleanArgs[1])
       /\ AfterPc({"detect", "selectDir", "harmonize", "spawn", "running", "exited"})

\* detectPackageManager has returned.
Detected ==
    /\ structure # NullStructure
    /\ \/ cleanArgs = <<>> /\ AfterPc({"running", "exited"})
       \/ cleanArgs # <<>> /\ AfterPc({"selectDir", "harmonize", "spawn", "running", "exited"})

\* getExecutionDirectory has returned.
DirectorySelected ==
    /\ structure # NullStructure
    /\ cleanArgs # <<>>
    /\ AfterPc({"harmonize", "spawn", "running", "exited"})

\* harmonizeCommand has returned or has exited the process.
HarmonizeDone ==
    /\ structure # NullStructure
    /\ cleanArgs # <<>>
    /\ AfterPc({"spawn", "running", "exited"})

HasFile(dir, file) == file \in fs[dir].files

\* dir's package.json parses and declares a truthy script of that name.
Declares(dir, name) ==
    /\ HasFile(dir, "package.json")
    /\ fs[dir].packageJson.kind = "object"
    /\ \E n \in DOMAIN fs[dir].packageJson.scripts :
          n = name /\ Len(fs[dir].packageJson.scripts[n]) > 0

\* The directory a script command is to run in, by the script's name.
DirectoryForScript(name) ==
    IF Declares(structure.localRoot, name) THEN structure.localRoot
    ELSE IF structure.monorepoRoot # Null /\ Declares(structure.monorepoRoot, name)
         THEN structure.monorepoRoot
         ELSE structure.localRoot

-----------------------------------------------------------------------------
(* C1: for `run` with at least one argument, the execution directory is    *)
(* chosen by the script the first argument names: the local root if it     *)
(* declares that script, else the monorepo root if it does, else the local *)
(* root.                                                                   *)
C1_RunDirectoryByFirstArgument ==
    (DirectorySelected /\ cleanArgs[1] = S_run /\ Len(cleanArgs) >= 2)
        => executionDir = DirectoryForScript(cleanArgs[2])

-----------------------------------------------------------------------------
(* C2: findProjectStructure returns a structure if and only if some        *)
(* directory on the ancestor chain of the start directory, the filesystem  *)
(* root included, contains package.json, and localRoot is then the nearest *)
(* such directory.                                                         *)
ManifestDirs == {d \in AncestorsOrSelf(cwd) : HasFile(d, "package.json")}

C2_StructureIffManifestOnChain ==
    Resolved =>
        /\ (structure # NullStructure) <=> (ManifestDirs # {})
        /\ structure # NullStructure =>
              /\ structure.localRoot \in ManifestDirs
              /\ \A d \in ManifestDirs : structure.localRoot \in AncestorsOrSelf(d)
                                         => d = structure.localRoot

-----------------------------------------------------------------------------
(* C3: detectPackageManager returns the manager of the first signal in the *)
(* order: a lock file in the monorepo root, a lock file in the local root, *)
(* a recognized packageManager field in the monorepo root, one in the      *)
(* local root, and otherwise npm with reason "fallback"; in one directory  *)
(* the lock files are tried in the order bun.lockb, bun.lock,              *)
(* pnpm-lock.yaml, yarn.lock, package-lock.json.                           *)
HasLock(dir) == \E file \in {"bun.lockb", "bun.lock", "pnpm-lock.yaml", "yarn.lock",
                             "package-lock.json"} : HasFile(dir, file)

LockSignal(dir) ==
    IF HasFile(dir, "bun.lockb") \/ HasFile(dir, "bun.lock") THEN S_bun
    ELSE IF HasFile(dir, "pnpm-lock.yaml") THEN S_pnpm
    ELSE IF HasFile(dir, "yarn.lock") THEN S_yarn
    ELSE S_npm

\* The managers dir's packageManager field names: a string that is a
\* manager's name, or that name followed by "@" and anything.
FieldSignals(dir) ==
    {m \in {S_bun, S_pnpm, S_yarn, S_npm} :
        /\ HasFile(dir, "package.json")
        /\ fs[dir].packageJson.kind = "object"
        /\ fs[dir].packageJson.packageManager.tag = "string"
        /\ LET v == fs[dir].packageJson.packageManager.val
           IN v = m \/ (Len(v) > Len(m) /\ SubSeq(v, 1, Len(m) + 1) = m \o <<"@">>)}

C3_DetectionOrder ==
    Detected =>
        LET mono == structure.monorepoRoot
            local == structure.localRoot
            isMono == mono # Null
        IN IF isMono /\ HasLock(mono) THEN choice.manager = LockSignal(mono)
           ELSE IF HasLock(local) THEN choice.manager = LockSignal(local)
           ELSE IF isMono /\ FieldSignals(mono) # {} THEN choice.manager \in FieldSignals(mono)
           ELSE IF FieldSignals(local) # {} THEN choice.manager \in FieldSignals(local)
           ELSE choice.manager = S_npm /\ choice.reason.kind = "fallback"

\* The monorepo root's lock file wins over the local root's, which names
\* another manager.
C3_Witness ==
    /\ Detected
    /\ structure.monorepoRoot # Null
    /\ structure.monorepoRoot # structure.localRoot
    /\ HasLock(structure.monorepoRoot)
    /\ HasLock(structure.localRoot)
    /\ LockSignal(structure.localRoot) # LockSignal(structure.monorepoRoot)
    /\ FieldSignals(structure.localRoot) # {}
    /\ choice.manager = LockSignal(structure.monorepoRoot)

-----------------------------------------------------------------------------
(* C4: for `add` and `install`, with any arguments, the execution          *)
(* directory is the monorepo root when one was resolved and the local root *)
(* otherwise, whatever scripts the manifests declare.                      *)
C4_RootCommandsRunAtMonorepoRoot ==
    (DirectorySelected /\ cleanArgs[1] \in {S_add, S_install}) =>
        /\ structure.monorepoRoot # Null => executionDir = structure.monorepoRoot
        /\ structure.monorepoRoot = Null => executionDir = structure.localRoot

\* `install` runs at the monorepo root although only the local manifest
\* declares a script named install.
C4_Witness ==
    /\ DirectorySelected
    /\ cleanArgs[1] = S_install
    /\ structure.monorepoRoot # Null
    /\ structure.monorepoRoot # structure.localRoot
    /\ Declares(structure.localRoot, S_install)
    /\ ~Declares(structure.monorepoRoot, S_install)
    /\ executionDir = structure.monorepoRoot

-----------------------------------------------------------------------------
(* C5: for a shortcut command c of build, dev, typecheck, lint, the        *)
(* execution directory is the local root if its manifest declares a truthy *)
(* script c, else the monorepo root if one exists and declares c, else the *)
(* local root; a missing or unparseable manifest declares nothing.         *)
C5_ShortcutDirectory ==
    (DirectorySelected /\ cleanArgs[1] \in {S_build, S_dev, S_typecheck, S_lint})
        => executionDir = DirectoryForScript(cleanArgs[1])

\* `build` falls back to the monorepo root, whose manifest alone declares
\* build.
C5_Witness ==
    /\ DirectorySelected
    /\ cleanArgs[1] = S_build
    /\ structure.monorepoRoot # Null
    /\ structure.monorepoRoot # structure.localRoot
    /\ ~Declares(structure.localRoot, S_build)
    /\ Declares(structure.monorepoRoot, S_build)
    /\ executionDir = structure.monorepoRoot

-----------------------------------------------------------------------------
(* The mapping table of the command harmonizer, row by row.                *)

TableRow(command, args, manager) ==
    IF command = S_add
    THEN (IF manager = S_npm THEN <<S_npm, S_install>> ELSE <<manager, S_add>>) \o args
    ELSE IF command = S_install
    THEN (IF manager = S_bun /\ Len(args) >= 1 THEN <<S_bun, S_add>>
          ELSE <<manager, S_install>>) \o args
    ELSE IF command = S_run
    THEN <<manager, S_run>> \o args
    ELSE <<manager, S_run, command>>

(* C6, as stated: harmonizeCommand agrees with the mapping table for every *)
(* command, manager and argument list; `run` with at least one argument    *)
(* gives `<manager> run <args>`.                                           *)
C6_HarmonizeAgreesWithTable ==
    (HarmonizeDone /\ (cleanArgs[1] = S_run => Len(cleanArgs) >= 2))
        => finalCommand = TableRow(cleanArgs[1], Tail(cleanArgs), choice.manager)

(* C6, amended: the same, where the row of `run` is for a first argument   *)
(* that is not the empty string.                                           *)
C6_HarmonizeAgreesWithTableNonEmptyScript ==
    (HarmonizeDone /\ (cleanArgs[1] = S_run => Len(cleanArgs) >= 2 /\ cleanArgs[2] # <<>>))
        => finalCommand = TableRow(cleanArgs[1], Tail(cleanArgs), choice.manager)

\* `bun install x` has become `bun add x`.
C6_Witness ==
    /\ HarmonizeDone
    /\ cleanArgs[1] = S_install
    /\ Tail(cleanArgs) = <<S_x>>
    /\ choice.manager = S_bun
    /\ finalCommand = <<S_bun, S_add>> \o Tail(cleanArgs)

-----------------------------------------------------------------------------
(* C7, as stated: a directory with none of the workspace-indicator files   *)
(* is the monorepo root if and only if it holds a lock file and its        *)
(* package.json parses and declares a non-empty workspaces field.          *)
NoIndicatorFile(dir) ==
    \A file \in {"pnpm-workspace.yaml", "lerna.json", "nx.json", "rush.json"} :
        ~HasFile(dir, file)

WorkspacesIn(dir, values) ==
    /\ fs[dir].packageJson.kind = "object"
    /\ fs[dir].packageJson.workspaces \in values

C7_MonorepoByNonEmptyWorkspaces ==
    (Resolved /\ structure # NullStructure /\ NoIndicatorFile(structure.localRoot)) =>
        (structure.monorepoRoot = structure.localRoot
            <=> HasLock(structure.localRoot)
                /\ WorkspacesIn(structure.localRoot, {"array", "packages"}))

(* C7, amended: ... and declares a workspaces field whose value is truthy: *)
(* any array or object, the empty array and the object with no packages    *)
(* included, or true.                                                      *)
C7_MonorepoByDeclaredWorkspaces ==
    (Resolved /\ structure # NullStructure /\ NoIndicatorFile(structure.localRoot)) =>
        (structure.monorepoRoot = structure.localRoot
            <=> HasLock(structure.localRoot)
                /\ WorkspacesIn(structure.localRoot,
                                {"emptyArray", "array", "emptyPackages", "packages",
                                 "true"}))

\* A lock file and "workspaces": [] make a monorepo root.
C7_Witness ==
    /\ Resolved
    /\ structure # NullStructure
    /\ NoIndicatorFile(structure.localRoot)
    /\ HasLock(structure.localRoot)
    /\ WorkspacesIn(structure.localRoot, {"emptyArray"})
    /\ structure.monorepoRoot = structure.localRoot

-----------------------------------------------------------------------------
(* C8: in every structure findProjectStructure returns, a monorepo root is *)
(* the local root or an ancestor of it, and with a git root it is the git  *)
(* root or a descendant of it.                                             *)
C8_MonorepoRootBetweenGitAndLocal ==
    (Resolved /\ structure # NullStructure /\ structure.monorepoRoot # Null) =>
        /\ structure.monorepoRoot \in AncestorsOrSelf(structure.localRoot)
        /\ structure.gitRoot # Null
              => structure.gitRoot \in AncestorsOrSelf(structure.monorepoRoot)

\* A monorepo root above the local root, at the git root.
C8_Witness ==
    /\ Resolved
    /\ structure.monorepoRoot # Null
    /\ structure.monorepoRoot # structure.localRoot
    /\ structure.gitRoot = structure.monorepoRoot

-----------------------------------------------------------------------------
(* C9: an invocation that hits a usage error (no package.json on the       *)
(* ancestor chain, a first non-debug argument that is no command, `run`    *)
(* without a script name) spawns no child at any point, never reaches the  *)
(* spawn, and runs on until it exits with code 1.                          *)
NonDebugArgs == SelectSeq(argv, LAMBDA arg : arg # S_debug)

UsageError ==
    \/ \A d \in AncestorsOrSelf(cwd) : ~HasFile(d, "package.json")
    \/ NonDebugArgs # <<>> /\ NonDebugArgs[1] \notin Range(SUPPORTED_COMMANDS)
    \/ /\ NonDebugArgs # <<>>
       /\ NonDebugArgs[1] = S_run
       /\ (Len(NonDebugArgs) = 1 \/ NonDebugArgs[2] = <<>>)

C9_UsageErrorExitsWithoutSpawn ==
    UsageError =>
        /\ spawned = <<>>
        /\ pc \notin {"spawn", "running"}
        /\ pc = "exited" => exitCode = 1
        /\ pc # "exited" => ENABLED Next

\* `run` without a script name, in a project: exit 1, nothing spawned.
C9_Witness ==
    /\ pc = "exited"
    /\ structure # NullStructure
    /\ cleanArgs = <<S_run>>
    /\ isDebug
    /\ exitCode = 1
    /\ spawned = <<>>

-----------------------------------------------------------------------------
(* C10: the command line handed to the process runner splits back into     *)
(* the token sequence harmonizeCommand produced, also when an argument     *)
(* contains a space.                                                       *)
C10_CommandLineKeepsTokens ==
    (cleanArgs # <<>> /\ spawned # <<>>) => ShellWords(spawned[1].line) = finalCommand

=============================================================================
